---- MODULE Spec2Model ----
(***************************************************************************)
(* shadowDB: a mock CRM Record Service (mock_crm_server.py) guarded by an  *)
(* outage flag and a sliding-window rate limiter, and an agent (agent.py)  *)
(* whose tools call the Record Service, keep a local SQLite mirror         *)
(* (shadow.db) and bulk-sync the Record Service into the mirror.           *)
(*                                                                         *)
(* A SQL row and a Python dict are both a function from the names of the   *)
(* columns / keys that hold a value to that value: a NULL column is a      *)
(* column outside the row's DOMAIN.  Time is counted in whole seconds.     *)
(***************************************************************************)
EXTENDS Integers, Sequences, FiniteSets, TLC

\* ------------------------------------------------------------------ bounds
\* The clock stops at MaxTime; at most MaxCreated rows are created upstream
\* on top of the seed; local inserts stop when a mirror table holds MaxRows
\* rows.
MaxTime == 10
MaxCreated == 1
MaxRows == 4

\* ------------------------------------------------------- program constants
RATE_LIMIT == 5
RATE_WINDOW == 10
BACKOFF == 2
REQUEST_TIMEOUT == 10

VARIABLES
    now,                 \* time.time(), in seconds
    down_mode,           \* mock_crm_server._down_mode
    request_timestamps,  \* mock_crm_server._request_timestamps
    crm_contacts,        \* crm_data.db, table contacts (set of rows)
    crm_deals,           \* crm_data.db, table deals
    shadow_db_exists,    \* agent._shadow_db_exists
    shadow_file,         \* os.path.exists(SHADOW_DB_PATH)
    contacts,            \* shadow.db, table contacts
    deals,               \* shadow.db, table deals
    pending_sync,        \* shadow.db, table pending_sync
    last_sync_time,      \* agent._last_sync_time
    sync_pc,             \* position of the running sync_crm_to_local call
    results,             \* sync_crm_to_local's local variable results
    ret,                 \* the last finished tool call: its name, its result
                         \* and, for a crm_* tool, the response's status
    probe,               \* instrumentation: facts about the run so far
    threads,             \* the server's request threads: where each is in
                         \* guard() and the time.time() it has sampled
    admitted,            \* instrumentation: the times at which the last
                         \* requests were admitted, and whether one was
                         \* admitted while the outage flag was on
    writers              \* the processes that write shadow.db side by side

vars == <<now, down_mode, request_timestamps, crm_contacts, crm_deals,
          shadow_db_exists, shadow_file, contacts, deals, pending_sync,
          last_sync_time, sync_pc, results, ret, probe,
          threads, admitted, writers>>

serverVars == <<down_mode, request_timestamps, crm_contacts, crm_deals>>
shadowVars == <<shadow_db_exists, shadow_file, contacts, deals, pending_sync>>
syncVars == <<last_sync_time, sync_pc, results>>
concVars == <<threads, admitted, writers>>

\* ---------------------------------------------------------------- helpers
Has(d, k) == k \in DOMAIN d

Restrict(d, keys) == [k \in (DOMAIN d) \cap keys |-> d[k]]

Ids(table) == {r.id : r \in {x \in table : Has(x, "id")}}

MaxId(table) == IF Ids(table) = {} THEN 0
                ELSE CHOOSE m \in Ids(table) : \A i \in Ids(table) : i <= m

EmptyDict == [k \in {} |-> k]

\* ------------------------------------------------------------ upstream data
\* crm_data.db as seeded by seed(): a few of its rows stand for the 47
\* contacts and 23 deals.  Seeded rows were created before the run (time 0).
SeedContacts ==
    { [id |-> 1, first_name |-> "James", last_name |-> "Brown",
       email |-> "james.brown@initech.com", company |-> "Initech",
       title |-> "CEO", phone |-> "+1-200-100-1000", created_at |-> 0],
      [id |-> 2, first_name |-> "Mary", last_name |-> "Smith",
       email |-> "mary.smith@acmecorp.com", company |-> "Acme Corp",
       title |-> "CTO", phone |-> "+1-201-101-1001", created_at |-> 0] }

SeedDeals ==
    { [id |-> 1, name |-> "Initech - Pilot Program", company |-> "Initech",
       amount |-> 60000, stage |-> "Proposal", close_date |-> "2026-02-01",
       contact_id |-> 1, created_at |-> 0],
      [id |-> 2, name |-> "Acme Corp - Annual Renewal", company |-> "Acme Corp",
       amount |-> 20000, stage |-> "Closed Won", close_date |-> "2026-01-15",
       contact_id |-> 2, created_at |-> 0] }

ContactRequired == {"first_name", "last_name", "email", "company", "title"}
DealRequired == {"name", "company", "amount", "stage", "close_date"}

ContactColumns == ContactRequired \cup {"id", "phone", "created_at"}
DealColumns == DealRequired \cup {"id", "contact_id", "created_at"}
PendingColumns == {"id", "table_name", "operation", "data", "created_at"}

\* Request bodies the callers send: the demo's Jane Smith and Acme deal, and
\* one body per kind that lacks a required field.
Jane == [first_name |-> "Jane", last_name |-> "Smith", email |-> "jane@acme.com",
         company |-> "Acme Corp", title |-> "VP of Engineering"]

AcmeDeal == [name |-> "Acme Corp expansion", company |-> "Acme Corp",
             amount |-> 120000, stage |-> "Negotiation",
             close_date |-> "2026-03-15"]

ContactBodies == {Jane, Restrict(Jane, ContactRequired \ {"email"})}
DealBodies == {AcmeDeal, Restrict(AcmeDeal, DealRequired \ {"amount"})}

\* A client of the Record Service also posts a contact under an email that
\* a stored contact already has.
JaneAsMary == [Jane EXCEPT !.email = "mary.smith@acmecorp.com"]
ServerContactBodies == ContactBodies \cup {JaneAsMary}

ContactFilters == {EmptyDict, [company |-> "Acme Corp"]}
DealFilters == {EmptyDict, [min_amount |-> 50000],
                [min_amount |-> 100000, company |-> "Acme Corp"]}

\* -------------------------------------------------- mock_crm_server: guard
is_down == down_mode

Prune(ts, t) == SelectSeq(ts, LAMBDA x : t - x < RATE_WINDOW)

\* _check_rate_limit at time t on the tracked list ts: whether the request is
\* limited, and the list it leaves behind.
check_rate_limit_off_by_one(ts, t) ==
    LET kept == Prune(ts, t)
    IN  IF Len(kept) > RATE_LIMIT
        THEN [limited |-> TRUE, ts |-> kept]
        ELSE [limited |-> FALSE, ts |-> Append(kept, t)]

\* _check_rate_limit that tracks the refused requests too.
check_rate_limit_tracks_refused(ts, t) ==
    LET kept == Prune(ts, t)
    IN  [limited |-> Len(kept) >= RATE_LIMIT, ts |-> Append(kept, t)]

check_rate_limit(ts, t) ==
    LET kept == Prune(ts, t)
    IN  IF Len(kept) >= RATE_LIMIT
        THEN [limited |-> TRUE, ts |-> kept]
        ELSE [limited |-> FALSE, ts |-> Append(kept, t)]

\* guard(): an error status, or no status (None) when the request may go on;
\* ts is the tracked list afterwards.
guard_rate_limit_first ==
    LET r == check_rate_limit(request_timestamps, now)
    IN  IF r.limited THEN [status |-> 429, ts |-> r.ts]
        ELSE IF is_down THEN [status |-> 503, ts |-> r.ts]
        ELSE [ts |-> r.ts]

guard ==
    IF is_down
    THEN [status |-> 503, ts |-> request_timestamps]
    ELSE LET r == check_rate_limit(request_timestamps, now)
         IN  IF r.limited THEN [status |-> 429, ts |-> r.ts]
             ELSE [ts |-> r.ts]

\* ----------------------------------------------- mock_crm_server: endpoints
\* Each endpoint is the response to a request made in the current state: its
\* status, the tracked list and the table it leaves, and the latency slept.
\* ORDER BY last_name is not modelled: the rows of a contact list are a set.
list_contacts(args) ==
    LET err == guard
    IN  IF Has(err, "status")
        THEN [status |-> err.status, ts |-> err.ts, latency |-> "none"]
        ELSE LET rows == IF Has(args, "company") /\ args.company # ""
                         THEN {r \in crm_contacts : r.company = args.company}
                         ELSE crm_contacts
             IN  [status |-> 200, ts |-> err.ts, latency |-> "READ_DELAY",
                  contacts |-> rows, count |-> Cardinality(rows)]

\* create_contact that requires the two names only and stores "" for the
\* other text fields it is not given.
create_contact_names_required(data) ==
    LET err == guard
    IN  IF Has(err, "status")
        THEN [status |-> err.status, ts |-> err.ts, latency |-> "none",
              table |-> crm_contacts]
        ELSE IF {"first_name", "last_name"} \ DOMAIN data # {}
        THEN [status |-> 400, ts |-> err.ts, latency |-> "WRITE_DELAY",
              table |-> crm_contacts]
        ELSE LET row == [k \in ContactColumns |->
                            IF k = "id" THEN MaxId(crm_contacts) + 1
                            ELSE IF k = "created_at" THEN now
                            ELSE IF Has(data, k) THEN data[k] ELSE ""]
             IN  [status |-> 201, ts |-> err.ts, latency |-> "WRITE_DELAY",
                  table |-> crm_contacts \cup {row}, contact |-> row]

create_contact(data) ==
    LET err == guard
    IN  IF Has(err, "status")
        THEN [status |-> err.status, ts |-> err.ts, latency |-> "none",
              table |-> crm_contacts]
        ELSE IF ContactRequired \ DOMAIN data # {}
        THEN [status |-> 400, ts |-> err.ts, latency |-> "WRITE_DELAY",
              table |-> crm_contacts]
        ELSE LET row == [id |-> MaxId(crm_contacts) + 1,
                         first_name |-> data.first_name,
                         last_name |-> data.last_name,
                         email |-> data.email,
                         company |-> data.company,
                         title |-> data.title,
                         phone |-> IF Has(data, "phone") THEN data.phone ELSE "",
                         created_at |-> now]
             IN  [status |-> 201, ts |-> err.ts, latency |-> "WRITE_DELAY",
                  table |-> crm_contacts \cup {row}, contact |-> row]

\* WHERE amount > ? in place of amount >= ?.
FilterDeals_above(args) ==
    {r \in crm_deals :
        /\ Has(args, "min_amount") => r.amount > args.min_amount
        /\ (Has(args, "company") /\ args.company # "") => r.company = args.company}

\* The deals that pass the filters; list_deals orders them by amount.
FilterDeals(args) ==
    {r \in crm_deals :
        /\ Has(args, "min_amount") => r.amount >= args.min_amount
        /\ (Has(args, "company") /\ args.company # "") => r.company = args.company}

list_deals(args) ==
    LET err == guard
    IN  IF Has(err, "status")
        THEN [status |-> err.status, ts |-> err.ts, latency |-> "none"]
        ELSE LET rows == FilterDeals(args)
             IN  [status |-> 200, ts |-> err.ts, latency |-> "READ_DELAY",
                  deals |-> rows, count |-> Cardinality(rows)]

\* The arrays in which ORDER BY amount DESC can return the rows: each row
\* once, no row before a row of larger amount (rows of equal amount come in
\* the order SQLite finds them).
OrderByAmountDesc(rows) ==
    {s \in [1..Cardinality(rows) -> rows] :
        /\ \A i, j \in DOMAIN s : i # j => s[i] # s[j]
        /\ \A i, j \in DOMAIN s : i < j => s[i].amount >= s[j].amount}

\* The "deals" arrays a 200 answer of list_deals can carry.
list_deals_rows(args) == OrderByAmountDesc(FilterDeals(args))

create_deal(data) ==
    LET err == guard
    IN  IF Has(err, "status")
        THEN [status |-> err.status, ts |-> err.ts, latency |-> "none",
              table |-> crm_deals]
        ELSE IF DealRequired \ DOMAIN data # {}
        THEN [status |-> 400, ts |-> err.ts, latency |-> "WRITE_DELAY",
              table |-> crm_deals]
        ELSE LET base == [id |-> MaxId(crm_deals) + 1,
                          name |-> data.name,
                          company |-> data.company,
                          amount |-> data.amount,
                          stage |-> data.stage,
                          close_date |-> data.close_date,
                          created_at |-> now]
                 row == IF Has(data, "contact_id")
                        THEN [k \in DealColumns |->
                                 IF k = "contact_id" THEN data.contact_id ELSE base[k]]
                        ELSE base
             IN  [status |-> 201, ts |-> err.ts, latency |-> "WRITE_DELAY",
                  table |-> crm_deals \cup {row}, deal |-> row]

\* ------------------------------------------------------ agent: CRM tools
ERR_429 == "Rate limit exceeded (429)"
ERR_503 == "Salesforce API is down (503)"
ERR_UNREACHABLE == "Salesforce API is unreachable"
ERR_NOT_INITIALIZED == "Local database does not exist. Call create_local_db first."
ERR_INVALID_ARGUMENT == "Both 'table' and 'data' are required."
ERR_SQLITE == "sqlite3 error"
ERR_TOOL == "Tool execution failed"

\* requests.get / requests.post when the server cannot be reached: no response
\* (no status), and the server's state is as it was.
ConnectionError == [ts |-> request_timestamps]

\* What a crm_* tool makes of the response resp, whose body is under key.
\* raise_for_status() raises on any other 4xx/5xx status, and run_tool turns
\* the exception into an error result.
crm_result(resp, keys) ==
    IF ~Has(resp, "status") THEN [error |-> ERR_UNREACHABLE]
    ELSE IF resp.status = 429 THEN [error |-> ERR_429]
    ELSE IF resp.status = 503 THEN [error |-> ERR_503]
    ELSE IF resp.status >= 400 THEN [error |-> ERR_TOOL]
    ELSE Restrict(resp, keys)

crm_list_contacts(filters, reachable) ==
    LET params == Restrict(filters, {"company"})
        resp == IF reachable THEN list_contacts(params) ELSE ConnectionError
    IN  [data |-> crm_result(resp, {"contacts", "count"}), resp |-> resp]

crm_create_contact(data, reachable) ==
    LET resp == IF reachable THEN create_contact(data)
                ELSE [ts |-> request_timestamps, table |-> crm_contacts]
    IN  [data |-> crm_result(resp, {"contact"}), resp |-> resp]

crm_list_deals(filters, reachable) ==
    LET params == Restrict(filters, {"min_amount", "company"})
        resp == IF reachable THEN list_deals(params) ELSE ConnectionError
    IN  [data |-> crm_result(resp, {"deals", "count"}), resp |-> resp]

crm_create_deal(data, reachable) ==
    LET resp == IF reachable THEN create_deal(data)
                ELSE [ts |-> request_timestamps, table |-> crm_deals]
    IN  [data |-> crm_result(resp, {"deal"}), resp |-> resp]

\* The summary of a list or query result kept in ret: its error, if any (the
\* rows and their count are left out).
Summary(data) == Restrict(data, {"error"})

\* Phase C (mirror-primary): the mirror exists and a sync has populated it.
PhaseC == probe.populated

\* ---------------------------------------------------- agent: shadow store
TableNames == {"contacts", "deals", "pending_sync"}

Table(name) == CASE name = "contacts" -> contacts
                 [] name = "deals" -> deals
                 [] name = "pending_sync" -> pending_sync

Columns(name) == CASE name = "contacts" -> ContactColumns
                   [] name = "deals" -> DealColumns
                   [] name = "pending_sync" -> PendingColumns

\* The flag alone, a file left by an earlier process not looked for.
Initialized_flag_only == shadow_db_exists

\* os.path.exists(SHADOW_DB_PATH) or the flag: what local_db_query and
\* local_db_insert test before they open the file.
Initialized == shadow_db_exists \/ shadow_file

\* INSERT OR IGNORE: a row whose id is in use is not written.
Upsert_or_ignore(table, row) ==
    LET r == IF Has(row, "id") THEN row
             ELSE [k \in DOMAIN row \cup {"id"} |->
                      IF k = "id" THEN MaxId(table) + 1 ELSE row[k]]
    IN  IF r.id \in Ids(table) THEN table ELSE table \cup {r}

\* An UPDATE of the named columns when the id is in use: the columns that
\* are not named keep their values.
Upsert_merge(table, row) ==
    LET r == IF Has(row, "id") THEN row
             ELSE [k \in DOMAIN row \cup {"id"} |->
                      IF k = "id" THEN MaxId(table) + 1 ELSE row[k]]
    IN  {x \in table : x.id # r.id} \cup
        (IF r.id \in Ids(table) THEN {r @@ x : x \in {y \in table : y.id = r.id}}
         ELSE {r})

\* INSERT OR REPLACE of one row: the row with the same id gives way.  A row
\* written without an id gets the next rowid.
Upsert(table, row) ==
    LET r == IF Has(row, "id") THEN row
             ELSE [k \in DOMAIN row \cup {"id"} |->
                      IF k = "id" THEN MaxId(table) + 1 ELSE row[k]]
    IN  {x \in table : x.id # r.id} \cup {r}

\* The statements the caller sends to local_db_query: SELECT * FROM a table,
\* with or without WHERE company = ..., and one on a table that is not there.
\* The caller sends read statements only.
Queries == {[table |-> "contacts"], [table |-> "contacts", company |-> "Acme Corp"],
            [table |-> "deals"], [table |-> "pending_sync"],
            [table |-> "accounts"]}

\* A query that asks the Record Service first.
local_db_query_checks_upstream(sql) ==
    IF is_down THEN [error |-> ERR_503]
    ELSE IF ~Initialized THEN [error |-> ERR_NOT_INITIALIZED]
    ELSE IF sql.table \notin TableNames THEN [error |-> ERR_SQLITE]
    ELSE LET rows == IF Has(sql, "company")
                     THEN {r \in Table(sql.table) :
                              Has(r, "company") /\ r.company = sql.company}
                     ELSE Table(sql.table)
         IN  [results |-> rows, count |-> Cardinality(rows)]

local_db_query(sql) ==
    IF ~Initialized THEN [error |-> ERR_NOT_INITIALIZED]
    ELSE IF sql.table \notin TableNames THEN [error |-> ERR_SQLITE]
    ELSE LET rows == IF Has(sql, "company")
                     THEN {r \in Table(sql.table) :
                              Has(r, "company") /\ r.company = sql.company}
                     ELSE Table(sql.table)
         IN  [results |-> rows, count |-> Cardinality(rows)]

\* An insert that tests the table only: empty data reaches SQLite, which
\* rejects the statement.
local_db_insert_table_only(table, data) ==
    IF ~Initialized THEN [error |-> ERR_NOT_INITIALIZED]
    ELSE IF table = "" THEN [error |-> ERR_INVALID_ARGUMENT]
    ELSE IF table \notin TableNames \/ data = EmptyDict
            \/ ~(DOMAIN data \subseteq Columns(table))
    THEN [error |-> ERR_SQLITE]
    ELSE [message |-> "Inserted", table |-> Upsert(Table(table), data)]

\* local_db_insert: the result, and the table as it is afterwards.
local_db_insert(table, data) ==
    IF ~Initialized THEN [error |-> ERR_NOT_INITIALIZED]
    ELSE IF table = "" \/ data = EmptyDict THEN [error |-> ERR_INVALID_ARGUMENT]
    ELSE IF table \notin TableNames \/ ~(DOMAIN data \subseteq Columns(table))
    THEN [error |-> ERR_SQLITE]
    ELSE [message |-> "Inserted", table |-> Upsert(Table(table), data)]

\* What the caller sends to local_db_insert: the created contact under the
\* id the Record Service would give it, and a call without a table.
Inserts == { <<"contacts", [id |-> 3] @@ Jane>>, <<"", Jane>> }

\* What a caller sends to local_db_insert on the shadow store alone: contacts
\* and deals with and without an id, an id that is already in use, ledger
\* entries with and without an id, and calls that lack a table, lack the
\* data, or name a table that is not there.
PendingJane == [table_name |-> "contacts", operation |-> "create",
                data |-> "Jane Smith", created_at |-> 0]

PendingAcme == [id |-> 1, table_name |-> "deals", operation |-> "create",
                data |-> "Acme Corp expansion", created_at |-> 0]

StoreInserts ==
    { <<"contacts", [id |-> 3] @@ Jane>>, <<"contacts", Jane>>,
      <<"contacts", [id |-> 1] @@ Jane>>, <<"deals", AcmeDeal>>,
      <<"pending_sync", PendingJane>>, <<"pending_sync", PendingAcme>>,
      <<"", Jane>>, <<"contacts", EmptyDict>>, <<"accounts", Jane>> }

\* ------------------------------------------------ agent: sync_crm_to_local
\* "429" in error
Has429(error) == error = ERR_429

\* INSERT in place of INSERT OR REPLACE, the id left to SQLite: every listed
\* row is added under a fresh rowid.
sync_insert_without_id(table, rows, columns) ==
    table \cup
    {[k \in (columns \cap DOMAIN c) |->
         IF k = "id" THEN MaxId(table) + c.id ELSE c[k]] : c \in rows}

\* The values of email and company bound to each other's placeholder.
sync_upsert_swapped_columns(table, rows, columns) ==
    {x \in table : x.id \notin Ids(rows)} \cup
    {[k \in (columns \cap DOMAIN c) |->
         IF k = "email" /\ Has(c, "company") THEN c.company
         ELSE IF k = "company" /\ Has(c, "email") THEN c.email
         ELSE c[k]] : c \in rows}

\* DELETE FROM the table, then the INSERT of every listed row.
sync_upsert_replaces_table(table, rows, columns) ==
    {[k \in (columns \cap DOMAIN c) |-> c[k]] : c \in rows}

\* The INSERT OR REPLACE of every listed row, column by column.
sync_upsert(table, rows, columns) ==
    {x \in table : x.id \notin Ids(rows)} \cup
    {[k \in (columns \cap DOMAIN c) |-> c[k]] : c \in rows}

NewResults == [contacts_synced |-> 0, deals_synced |-> 0, errors |-> <<>>]

\* The status of a response, 0 when there was none.
StatusOf(resp) == IF Has(resp, "status") THEN resp.status ELSE 0

\* The instrumentation.  populated: a sync has synced both kinds (the mirror
\* is created and populated: Phase C).  list_in_C: a list tool has sent a
\* request to the Record Service in Phase C.  clean: neither the upstream data
\* nor the mirror has been written since the last sync that synced both kinds.
\* The rest is about the sync that is running or was the last tool to run:
\* the list calls it made per kind, the status of the first and of the last
\* response per kind (0: none), the mirror as it was when the sync started,
\* and repeat: it synced both kinds and started clean.
NoProbe == [populated |-> FALSE, list_in_C |-> FALSE, clean |-> FALSE,
            calls |-> [contacts |-> 0, deals |-> 0],
            first |-> [contacts |-> 0, deals |-> 0],
            final |-> [contacts |-> 0, deals |-> 0],
            before |-> <<{}, {}>>, repeat |-> FALSE]

\* The instrumentation after a tool other than the sync has run: whether it
\* sent a list request that reached the Record Service, and whether it wrote
\* upstream data or mirror rows.
ToolProbe(listed, wrote) ==
    [NoProbe EXCEPT !.populated = probe.populated,
                    !.list_in_C = probe.list_in_C \/ (listed /\ PhaseC),
                    !.clean = probe.clean /\ ~wrote]

\* --------------------------------------------------- concurrency: at rest
\* The server's request threads; each is outside guard().
Threads == {"t1", "t2"}

NoThreads == [th \in Threads |-> [pc |-> "idle", t |-> 0]]

NoAdmitted == [times |-> <<>>, during_outage |-> FALSE]

\* No process is writing shadow.db.
NoWriters == <<>>

\* ------------------------------------------------------------------- Init
\* The server is up with an empty window over the seeded data.  run_demo has
\* removed shadow.db; no tool has been called.
Init ==
    /\ now = 0
    /\ down_mode = FALSE
    /\ request_timestamps = <<>>
    /\ crm_contacts = SeedContacts
    /\ crm_deals = SeedDeals
    /\ shadow_db_exists = FALSE
    /\ shadow_file = FALSE
    /\ contacts = {}
    /\ deals = {}
    /\ pending_sync = {}
    /\ last_sync_time = <<>>
    /\ sync_pc = "idle"
    /\ results = NewResults
    /\ ret = [tool |-> "none", out |-> EmptyDict]
    /\ probe = NoProbe
    /\ threads = NoThreads
    /\ admitted = NoAdmitted
    /\ writers = NoWriters

\* ------------------------------------------------------------------ clock
Tick(d) ==
    /\ now + d <= MaxTime
    /\ now' = now + d
    /\ UNCHANGED <<concVars, serverVars, shadowVars, syncVars, ret, probe>>

\* ------------------------------------------------- admin and other clients
\* These are not tools of the agent: ret keeps the last tool's result.
\* toggle_down that flips the flag whatever the body says.
toggle_down_flips(body) ==
    /\ down_mode' = ~down_mode
    /\ UNCHANGED <<concVars, now, request_timestamps, crm_contacts, crm_deals,
                   shadowVars, syncVars, ret, probe>>

toggle_down(body) ==
    /\ down_mode' = IF Has(body, "down") THEN body.down ELSE ~down_mode
    /\ UNCHANGED <<concVars, now, request_timestamps, crm_contacts, crm_deals,
                   shadowVars, syncVars, ret, probe>>

reset_rate_limit ==
    /\ request_timestamps' = <<>>
    /\ UNCHANGED <<concVars, now, down_mode, crm_contacts, crm_deals,
                   shadowVars, syncVars, ret, probe>>

\* ------------------------------------- mock_crm_server: request threads
\* app.run() serves each request in a thread of its own; a thread runs
\* guard() in three steps.  First _is_down() reads the flag under _down_lock:
\* when the flag is on the request is answered 503 and the thread is done.
IsDown(th) ==
    /\ threads[th].pc = "idle"
    /\ threads' = [threads EXCEPT ![th].pc = IF is_down THEN "idle" ELSE "up"]
    /\ UNCHANGED <<now, serverVars, shadowVars, syncVars, ret, probe,
                   admitted, writers>>

\* Then _check_rate_limit samples now = time.time(), outside the lock.
SampleTime(th) ==
    /\ threads[th].pc = "up"
    /\ threads' = [threads EXCEPT ![th] = [pc |-> "sampled", t |-> now]]
    /\ UNCHANGED <<now, serverVars, shadowVars, syncVars, ret, probe,
                   admitted, writers>>

\* The times of the last RATE_LIMIT + 1 admissions.
Latest(times) == IF Len(times) > RATE_LIMIT + 1 THEN Tail(times) ELSE times

\* Then, under _rate_lock, it prunes, tests and appends with the time it
\* sampled.  A request that is not limited is admitted: guard() returns None
\* and the endpoint serves it.
RateLock(th) ==
    /\ threads[th].pc = "sampled"
    /\ LET r == check_rate_limit(request_timestamps, threads[th].t)
       IN  /\ request_timestamps' = r.ts
           /\ admitted' =
                 IF r.limited THEN admitted
                 ELSE [times |-> Latest(Append(admitted.times, now)),
                       during_outage |-> admitted.during_outage \/ down_mode]
    /\ threads' = [threads EXCEPT ![th] = [pc |-> "idle", t |-> 0]]
    /\ UNCHANGED <<now, down_mode, crm_contacts, crm_deals, shadowVars,
                   syncVars, ret, probe, writers>>

\* demo.exhaust_rate_limit: five GET /api/contacts in a row, their outcomes
\* thrown away; n requests leave the tracked list ts as Requests(ts, n).
RECURSIVE Requests(_, _)
Requests(ts, n) ==
    IF n = 0 THEN ts
    ELSE Requests(IF is_down THEN ts ELSE check_rate_limit(ts, now).ts, n - 1)

exhaust_rate_limit ==
    /\ request_timestamps' = Requests(request_timestamps, RATE_LIMIT)
    /\ UNCHANGED <<concVars, now, down_mode, crm_contacts, crm_deals,
                   shadowVars, syncVars, ret, probe>>

\* ------------------------------------------------------- TOOL_DISPATCH
\* The rows created on top of the seed when the upstream tables are cs and ds.
Created(cs, ds) == Cardinality(cs \ SeedContacts) + Cardinality(ds \ SeedDeals)

\* run_tool runs one tool at a time: no tool starts while a sync is running.
CrmListContacts(filters, reachable) ==
    /\ sync_pc = "idle"
    /\ LET call == crm_list_contacts(filters, reachable)
       IN  /\ request_timestamps' = call.resp.ts
           /\ ret' = [tool |-> "crm_list_contacts", status |-> StatusOf(call.resp),
                      out |-> Summary(call.data)]
    /\ probe' = ToolProbe(reachable, FALSE)
    /\ UNCHANGED <<concVars, now, down_mode, crm_contacts, crm_deals, shadowVars, syncVars>>

CrmListDeals(filters, reachable) ==
    /\ sync_pc = "idle"
    /\ LET call == crm_list_deals(filters, reachable)
       IN  /\ request_timestamps' = call.resp.ts
           /\ ret' = [tool |-> "crm_list_deals", status |-> StatusOf(call.resp),
                      out |-> Summary(call.data)]
    /\ probe' = ToolProbe(reachable, FALSE)
    /\ UNCHANGED <<concVars, now, down_mode, crm_contacts, crm_deals, shadowVars, syncVars>>

CrmCreateContact(data, reachable) ==
    /\ sync_pc = "idle"
    /\ LET call == crm_create_contact(data, reachable)
       IN  /\ Created(call.resp.table, crm_deals) <= MaxCreated
           /\ request_timestamps' = call.resp.ts
           /\ crm_contacts' = call.resp.table
           /\ ret' = [tool |-> "crm_create_contact", args |-> data,
                      status |-> StatusOf(call.resp), out |-> call.data]
    /\ probe' = ToolProbe(FALSE, crm_contacts' # crm_contacts)
    /\ UNCHANGED <<concVars, now, down_mode, crm_deals, shadowVars, syncVars>>

CrmCreateDeal(data, reachable) ==
    /\ sync_pc = "idle"
    /\ LET call == crm_create_deal(data, reachable)
       IN  /\ Created(crm_contacts, call.resp.table) <= MaxCreated
           /\ request_timestamps' = call.resp.ts
           /\ crm_deals' = call.resp.table
           /\ ret' = [tool |-> "crm_create_deal", args |-> data,
                      status |-> StatusOf(call.resp), out |-> call.data]
    /\ probe' = ToolProbe(FALSE, crm_deals' # crm_deals)
    /\ UNCHANGED <<concVars, now, down_mode, crm_contacts, shadowVars, syncVars>>

\* create_local_db with CREATE TABLE in place of CREATE TABLE IF NOT EXISTS
\* over a file that is opened afresh.
create_local_db_from_scratch ==
    /\ shadow_file' = TRUE
    /\ shadow_db_exists' = TRUE
    /\ contacts' = {}
    /\ deals' = {}
    /\ pending_sync' = {}

\* create_local_db that drops pending_sync before it creates the tables.
create_local_db_drops_ledger ==
    /\ shadow_file' = TRUE
    /\ shadow_db_exists' = TRUE
    /\ pending_sync' = {}
    /\ UNCHANGED <<contacts, deals>>

create_local_db ==
    /\ shadow_file' = TRUE
    /\ shadow_db_exists' = TRUE
    /\ UNCHANGED <<contacts, deals, pending_sync>>

CreateLocalDb ==
    /\ sync_pc = "idle"
    /\ create_local_db
    /\ ret' = [tool |-> "create_local_db",
               out |-> [message |-> "Local shadow database created"]]
    /\ probe' = ToolProbe(FALSE, FALSE)
    /\ UNCHANGED <<concVars, now, serverVars, syncVars>>

LocalDbQuery(sql) ==
    /\ sync_pc = "idle"
    /\ ret' = [tool |-> "local_db_query", args |-> sql,
               out |-> Summary(local_db_query(sql))]
    /\ probe' = ToolProbe(FALSE, FALSE)
    /\ UNCHANGED <<concVars, now, serverVars, shadowVars, syncVars>>

LocalDbInsert(table, data) ==
    /\ sync_pc = "idle"
    /\ LET r == local_db_insert(table, data)
           written == Has(r, "table")
       IN  /\ contacts' = IF written /\ table = "contacts" THEN r.table ELSE contacts
           /\ deals' = IF written /\ table = "deals" THEN r.table ELSE deals
           /\ pending_sync' = IF written /\ table = "pending_sync" THEN r.table
                              ELSE pending_sync
           /\ ret' = [tool |-> "local_db_insert",
                      args |-> [table |-> table, data |-> data],
                      out |-> Restrict(r, {"error", "message"})]
    /\ probe' = ToolProbe(FALSE, contacts' # contacts \/ deals' # deals)
    /\ UNCHANGED <<concVars, now, serverVars, shadow_db_exists, shadow_file, syncVars>>

\* ------------------------------------------------ sync_crm_to_local, steps
\* The results dict res after a list attempt for contacts returned call.data:
\* the error is recorded under label, the count is the number of rows listed.
\* len(contact_data) in place of len(contact_data["contacts"]).
ContactsResults_len_of_response(label, res, call) ==
    [res EXCEPT
        !.errors = IF Has(call.data, "error")
                   THEN Append(@, <<label, call.data.error>>) ELSE @,
        !.contacts_synced = IF Has(call.data, "contacts")
                            THEN Cardinality(DOMAIN call.data) ELSE @]

ContactsResults(label, res, call) ==
    [res EXCEPT
        !.errors = IF Has(call.data, "error")
                   THEN Append(@, <<label, call.data.error>>) ELSE @,
        !.contacts_synced = IF Has(call.data, "contacts")
                            THEN Cardinality(call.data.contacts) ELSE @]

DealsResults(label, res, call) ==
    [res EXCEPT
        !.errors = IF Has(call.data, "error")
                   THEN Append(@, <<label, call.data.error>>) ELSE @,
        !.deals_synced = IF Has(call.data, "deals")
                         THEN Cardinality(call.data.deals) ELSE @]

\* The mirror table after the attempt: the listed rows are written.
\* The table is emptied when the list failed.
ContactsWritten_cleared_on_failure(call) ==
    IF Has(call.data, "contacts")
    THEN sync_upsert(contacts, call.data.contacts, ContactColumns)
    ELSE {}

\* The listed rows merged into the table as it was when the calls began, and
\* the result written back.
ContactsWritten_from_snapshot(call) ==
    IF Has(call.data, "contacts")
    THEN sync_upsert(IF writers = NoWriters THEN contacts ELSE writers.before[1],
                     call.data.contacts, ContactColumns)
    ELSE contacts

ContactsWritten(call) ==
    IF Has(call.data, "contacts")
    THEN sync_upsert(contacts, call.data.contacts, ContactColumns)
    ELSE contacts

DealsWritten(call) ==
    IF Has(call.data, "deals")
    THEN sync_upsert(deals, call.data.deals, DealColumns)
    ELSE deals

\* A retry after any error.
Limited_any_error(call) == Has(call.data, "error")

\* A first attempt that was rate limited sleeps BACKOFF seconds, then retries.
Limited(call) == Has(call.data, "error") /\ Has429(call.data.error)

\* The end of the call: the metadata is set and the results res are returned.
SyncReturn(res, p) ==
    LET full == p.final.contacts = 200 /\ p.final.deals = 200
    IN  /\ last_sync_time' = <<now>>
        /\ ret' = [tool |-> "sync_crm_to_local", out |-> res]
        /\ results' = NewResults
        /\ sync_pc' = "idle"
        /\ probe' = [p EXCEPT !.populated = @ \/ full,
                              !.repeat = full /\ p.clean,
                              !.clean = @ \/ full]

\* From the start of the call to the first list of contacts.
SyncContacts(reachable) ==
    /\ sync_pc = "idle"
    /\ LET call == crm_list_contacts(EmptyDict, reachable)
       IN  /\ Limited(call) => now + BACKOFF <= MaxTime
           /\ request_timestamps' = call.resp.ts
           /\ results' = ContactsResults("Contacts", NewResults, call)
           /\ contacts' = ContactsWritten(call)
           /\ now' = IF Limited(call) THEN now + BACKOFF ELSE now
           /\ sync_pc' = IF Limited(call) THEN "contacts_retry" ELSE "deals"
           /\ probe' = [probe EXCEPT
                  !.calls = [contacts |-> 1, deals |-> 0],
                  !.first = [contacts |-> StatusOf(call.resp), deals |-> 0],
                  !.final = [contacts |-> StatusOf(call.resp), deals |-> 0],
                  !.before = <<contacts, deals>>,
                  !.repeat = FALSE]
    /\ shadow_db_exists' = TRUE
    /\ shadow_file' = IF shadow_db_exists THEN shadow_file ELSE TRUE
    /\ UNCHANGED <<concVars, down_mode, crm_contacts, crm_deals, deals, pending_sync,
                   last_sync_time, ret>>

SyncContactsRetry(reachable) ==
    /\ sync_pc = "contacts_retry"
    /\ LET call == crm_list_contacts(EmptyDict, reachable)
       IN  /\ request_timestamps' = call.resp.ts
           /\ results' = ContactsResults("Contacts retry", results, call)
           /\ contacts' = ContactsWritten(call)
           /\ probe' = [probe EXCEPT !.calls.contacts = @ + 1,
                                     !.final.contacts = StatusOf(call.resp)]
    /\ sync_pc' = "deals"
    /\ UNCHANGED <<concVars, now, down_mode, crm_contacts, crm_deals, shadow_db_exists,
                   shadow_file, deals, pending_sync, last_sync_time, ret>>

SyncDeals(reachable) ==
    /\ sync_pc = "deals"
    /\ LET call == crm_list_deals(EmptyDict, reachable)
           res == DealsResults("Deals", results, call)
           p == [probe EXCEPT !.calls.deals = 1,
                              !.first.deals = StatusOf(call.resp),
                              !.final.deals = StatusOf(call.resp)]
       IN  /\ Limited(call) => now + BACKOFF <= MaxTime
           /\ request_timestamps' = call.resp.ts
           /\ deals' = DealsWritten(call)
           /\ IF Limited(call)
              THEN /\ now' = now + BACKOFF
                   /\ sync_pc' = "deals_retry"
                   /\ results' = res
                   /\ probe' = p
                   /\ UNCHANGED <<last_sync_time, ret>>
              ELSE /\ now' = now
                   /\ SyncReturn(res, p)
    /\ UNCHANGED <<concVars, down_mode, crm_contacts, crm_deals, shadow_db_exists,
                   shadow_file, contacts, pending_sync>>

SyncDealsRetry(reachable) ==
    /\ sync_pc = "deals_retry"
    /\ LET call == crm_list_deals(EmptyDict, reachable)
       IN  /\ request_timestamps' = call.resp.ts
           /\ deals' = DealsWritten(call)
           /\ SyncReturn(DealsResults("Deals retry", results, call),
                         [probe EXCEPT !.calls.deals = @ + 1,
                                       !.final.deals = StatusOf(call.resp)])
    /\ UNCHANGED <<concVars, now, down_mode, crm_contacts, crm_deals, shadow_db_exists,
                   shadow_file, contacts, pending_sync>>

\* A list call of the running sync raises: requests.get raises ReadTimeout
\* after REQUEST_TIMEOUT seconds without an answer, or raise_for_status raises
\* HTTPError on a status other than 429 and 503 (a handler that failed after
\* guard() admitted the request).  crm_list_* catch ConnectionError only, and
\* sync_crm_to_local catches nothing: the call ends here, without a result
\* and without its metadata; run_tool reports "Tool execution failed".  What
\* the sync wrote before stays written.
Causes == {"ReadTimeout", "HTTPError"}

SyncRaise(cause) ==
    /\ ~Has(guard, "status")
    /\ cause = "ReadTimeout" => now + REQUEST_TIMEOUT <= MaxTime
    /\ now' = IF cause = "ReadTimeout" THEN now + REQUEST_TIMEOUT ELSE now
    /\ request_timestamps' = guard.ts
    /\ shadow_db_exists' = TRUE
    /\ shadow_file' = IF shadow_db_exists THEN shadow_file ELSE TRUE
    /\ sync_pc' = "idle"
    /\ results' = NewResults
    /\ ret' = [tool |-> "sync_crm_to_local", raised |-> cause,
               out |-> [error |-> ERR_TOOL]]
    /\ LET k == IF sync_pc \in {"idle", "contacts_retry"} THEN "contacts" ELSE "deals"
           p == IF sync_pc = "idle"
                THEN [probe EXCEPT !.calls = [contacts |-> 0, deals |-> 0],
                                   !.first = [contacts |-> 0, deals |-> 0],
                                   !.final = [contacts |-> 0, deals |-> 0],
                                   !.before = <<contacts, deals>>]
                ELSE probe
       IN  probe' = [p EXCEPT !.calls[k] = @ + 1, !.final[k] = 0, !.repeat = FALSE]
    /\ UNCHANGED <<concVars, down_mode, crm_contacts, crm_deals, contacts, deals,
                   pending_sync, last_sync_time>>

\* ------------------------------------------- writers of shadow.db, side by side
\* Two processes of the agent share shadow.db, each running one tool call:
\* sync_crm_to_local or local_db_insert.  Both have created the store.  Each
\* connection's INSERT OR REPLACE statements up to its commit() are one
\* SQLite transaction, which holds the write lock of the file: a step.  The
\* requests of a sync are steps of their own.  The calls of this
\* specification make no more than RATE_LIMIT requests, so no list is rate
\* limited and no sync backs off.
Procs == {"p1", "p2"}

WriterInserts ==
    { <<"contacts", Jane>>, <<"contacts", [id |-> 1] @@ Jane>>,
      <<"contacts", [id |-> 3] @@ Jane>>, <<"deals", AcmeDeal>> }

\* A call that has not started: a sync is about to list the contacts.
SyncCall == [call |-> "sync", pc |-> "contacts", args |-> EmptyDict,
             data |-> EmptyDict, lists |-> EmptyDict]

InsertCall(i) == [call |-> "insert", pc |-> "insert",
                  args |-> [table |-> i[1], data |-> i[2]],
                  data |-> EmptyDict, lists |-> EmptyDict]

\* The pairs of calls: a sync beside a sync or beside an insert.
WriterPairs ==
    {[q \in Procs |-> IF q = "p1" THEN SyncCall ELSE c] :
        c \in {SyncCall} \cup {InsertCall(i) : i \in WriterInserts}}

\* The end of a sync call sets _last_sync_time.
WEnd(pc) == last_sync_time' = IF pc = "done" THEN <<now>> ELSE last_sync_time

\* contact_data = crm_list_contacts(); a failed list skips the write.
WFetchContacts(p, reachable) ==
    /\ writers # NoWriters
    /\ writers.procs[p].pc = "contacts"
    /\ LET call == crm_list_contacts(EmptyDict, reachable)
       IN  /\ ~Limited(call)
           /\ request_timestamps' = call.resp.ts
           /\ writers' = [writers EXCEPT
                 !.procs[p].data = call.data,
                 !.procs[p].pc = IF Has(call.data, "contacts")
                                 THEN "write_contacts" ELSE "deals"]
    /\ UNCHANGED <<now, down_mode, crm_contacts, crm_deals, shadowVars,
                   syncVars, ret, probe, threads, admitted>>

\* The transaction that writes the listed contacts.
WWriteContacts(p) ==
    /\ writers # NoWriters
    /\ writers.procs[p].pc = "write_contacts"
    /\ contacts' = ContactsWritten(writers.procs[p])
    /\ writers' = [writers EXCEPT
          !.procs[p].lists = Restrict(writers.procs[p].data, {"contacts"}),
          !.procs[p].data = EmptyDict,
          !.procs[p].pc = "deals"]
    /\ UNCHANGED <<now, serverVars, shadow_db_exists, shadow_file, deals,
                   pending_sync, syncVars, ret, probe, threads, admitted>>

\* deal_data = crm_list_deals(); a failed list ends the call.
WFetchDeals(p, reachable) ==
    /\ writers # NoWriters
    /\ writers.procs[p].pc = "deals"
    /\ LET call == crm_list_deals(EmptyDict, reachable)
           pc == IF Has(call.data, "deals") THEN "write_deals" ELSE "done"
       IN  /\ ~Limited(call)
           /\ request_timestamps' = call.resp.ts
           /\ writers' = [writers EXCEPT !.procs[p].data = call.data,
                                         !.procs[p].pc = pc]
           /\ WEnd(pc)
    /\ UNCHANGED <<now, down_mode, crm_contacts, crm_deals, shadowVars,
                   sync_pc, results, ret, probe, threads, admitted>>

\* The transaction that writes the listed deals; the call ends.
WWriteDeals(p) ==
    /\ writers # NoWriters
    /\ writers.procs[p].pc = "write_deals"
    /\ deals' = DealsWritten(writers.procs[p])
    /\ writers' = [writers EXCEPT
          !.procs[p].lists = writers.procs[p].lists @@
                             Restrict(writers.procs[p].data, {"deals"}),
          !.procs[p].data = EmptyDict,
          !.procs[p].pc = "done"]
    /\ WEnd("done")
    /\ UNCHANGED <<now, serverVars, shadow_db_exists, shadow_file, contacts,
                   pending_sync, sync_pc, results, ret, probe, threads, admitted>>

\* local_db_insert: one statement, one transaction.
WInsert(p) ==
    /\ writers # NoWriters
    /\ writers.procs[p].pc = "insert"
    /\ LET a == writers.procs[p].args
           r == local_db_insert(a.table, a.data)
           written == Has(r, "table")
       IN  /\ contacts' = IF written /\ a.table = "contacts" THEN r.table ELSE contacts
           /\ deals' = IF written /\ a.table = "deals" THEN r.table ELSE deals
           /\ pending_sync' = IF written /\ a.table = "pending_sync" THEN r.table
                              ELSE pending_sync
    /\ writers' = [writers EXCEPT !.procs[p].pc = "done"]
    /\ UNCHANGED <<now, serverVars, shadow_db_exists, shadow_file, syncVars,
                   ret, probe, threads, admitted>>

\* --------------------------------------------------------- specifications
Toggles == {EmptyDict, [down |-> TRUE], [down |-> FALSE]}

\* The clock of the whole system moves in steps that end a backoff's length
\* before the window has passed: a retry then falls inside or outside it.
ClockStep == RATE_WINDOW - BACKOFF

\* The agent's tools against the Record Service and the mirror.
Next ==
    \/ Tick(RATE_WINDOW)
    \/ \E body \in Toggles : toggle_down(body)
    \/ \E f \in ContactFilters : CrmListContacts(f, TRUE)
    \/ \E f \in DealFilters : CrmListDeals(f, TRUE)
    \/ \E data \in ContactBodies, reachable \in BOOLEAN : CrmCreateContact(data, reachable)
    \/ \E data \in DealBodies, reachable \in BOOLEAN : CrmCreateDeal(data, reachable)
    \/ CreateLocalDb
    \/ \E sql \in Queries : LocalDbQuery(sql)
    \/ \E i \in Inserts : LocalDbInsert(i[1], i[2])
    \/ SyncContacts(TRUE)
    \/ SyncContactsRetry(TRUE)
    \/ SyncDeals(TRUE)
    \/ SyncDealsRetry(TRUE)

Spec == Init /\ [][Next]_vars

\* The sync against a Record Service whose window other clients fill and
\* whose outage flag the operator sets, with contacts created between the
\* syncs.
SyncNext ==
    \/ Tick(ClockStep)
    \/ \E body \in Toggles : toggle_down(body)
    \/ exhaust_rate_limit
    \/ CrmCreateContact(Jane, TRUE)
    \/ \E reachable \in BOOLEAN : SyncContacts(reachable)
    \/ \E reachable \in BOOLEAN : SyncContactsRetry(reachable)
    \/ \E reachable \in BOOLEAN : SyncDeals(reachable)
    \/ \E reachable \in BOOLEAN : SyncDealsRetry(reachable)
    \/ \E cause \in Causes : SyncRaise(cause)

SpecSync == Init /\ [][SyncNext]_vars

\* The clock of the Record Service alone moves by half windows.
ServerClockStep == RATE_WINDOW \div 2

\* The Record Service alone under the four endpoints and the admin controls.
ServerNext ==
    \/ Tick(ServerClockStep)
    \/ \E body \in Toggles : toggle_down(body)
    \/ reset_rate_limit
    \/ \E f \in ContactFilters : CrmListContacts(f, TRUE)
    \/ \E f \in DealFilters : CrmListDeals(f, TRUE)
    \/ \E data \in ServerContactBodies : CrmCreateContact(data, TRUE)
    \/ \E data \in DealBodies : CrmCreateDeal(data, TRUE)

SpecServer == Init /\ [][ServerNext]_vars

\* The admission check of the Record Service under requests served side by
\* side, while the operator sets the outage flag.
ThreadsNext ==
    \/ Tick(ServerClockStep)
    \/ \E body \in Toggles : toggle_down(body)
    \/ \E th \in Threads : IsDown(th)
    \/ \E th \in Threads : SampleTime(th)
    \/ \E th \in Threads : RateLock(th)

SpecThreads == Init /\ [][ThreadsNext]_vars

\* The shadow store in a process that may find a shadow.db left by an earlier
\* process, empty or holding an earlier sync.
PriorMirrors == {<<{}, {}>>, <<SeedContacts, SeedDeals>>}

StoreInit ==
    /\ now = 0
    /\ down_mode = FALSE
    /\ request_timestamps = <<>>
    /\ crm_contacts = SeedContacts
    /\ crm_deals = SeedDeals
    /\ shadow_db_exists = FALSE
    /\ shadow_file \in BOOLEAN
    /\ \E m \in PriorMirrors :
          /\ contacts = IF shadow_file THEN m[1] ELSE {}
          /\ deals = IF shadow_file THEN m[2] ELSE {}
    /\ pending_sync = {}
    /\ last_sync_time = <<>>
    /\ sync_pc = "idle"
    /\ results = NewResults
    /\ ret = [tool |-> "none", out |-> EmptyDict]
    /\ probe = NoProbe
    /\ threads = NoThreads
    /\ admitted = NoAdmitted
    /\ writers = NoWriters

\* Two calls side by side over a store that both processes have created,
\* empty or holding an earlier sync, while a contact is created upstream.
WritersInit ==
    /\ now = 0
    /\ down_mode = FALSE
    /\ request_timestamps = <<>>
    /\ crm_contacts = SeedContacts
    /\ crm_deals = SeedDeals
    /\ shadow_db_exists = TRUE
    /\ shadow_file = TRUE
    /\ \E m \in PriorMirrors, pair \in WriterPairs :
          /\ contacts = m[1]
          /\ deals = m[2]
          /\ writers = [procs |-> pair, before |-> <<m[1], m[2], {}>>]
    /\ pending_sync = {}
    /\ last_sync_time = <<>>
    /\ sync_pc = "idle"
    /\ results = NewResults
    /\ ret = [tool |-> "none", out |-> EmptyDict]
    /\ probe = NoProbe
    /\ threads = NoThreads
    /\ admitted = NoAdmitted

WritersNext ==
    \/ CrmCreateContact(Jane, TRUE)
    \/ \E p \in Procs, reachable \in BOOLEAN : WFetchContacts(p, reachable)
    \/ \E p \in Procs : WWriteContacts(p)
    \/ \E p \in Procs, reachable \in BOOLEAN : WFetchDeals(p, reachable)
    \/ \E p \in Procs : WWriteDeals(p)
    \/ \E p \in Procs : WInsert(p)

SpecWriters == WritersInit /\ [][WritersNext]_vars

\* The sync over a mirror that also holds rows written locally: a contact
\* and a deal under ids the upstream has not assigned, and a ledger entry.
\* The Record Service is reached or not; the sync's requests fill its window.
MirrorInserts ==
    { <<"contacts", [id |-> 3] @@ Jane>>, <<"deals", [id |-> 3] @@ AcmeDeal>>,
      <<"pending_sync", PendingJane>> }

MirrorNext ==
    \/ \E i \in MirrorInserts :
          /\ LocalDbInsert(i[1], i[2])
          /\ \A name \in TableNames : Cardinality(Table(name)') <= MaxRows
    \/ \E reachable \in BOOLEAN : SyncContacts(reachable)
    \/ \E reachable \in BOOLEAN : SyncContactsRetry(reachable)
    \/ \E reachable \in BOOLEAN : SyncDeals(reachable)
    \/ \E reachable \in BOOLEAN : SyncDealsRetry(reachable)

SpecMirror == StoreInit /\ [][MirrorNext]_vars

\* The three tools of the store.
StoreNext ==
    \/ CreateLocalDb
    \/ \E sql \in Queries : LocalDbQuery(sql)
    \/ \E i \in StoreInserts :
          /\ LocalDbInsert(i[1], i[2])
          /\ \A name \in TableNames : Cardinality(Table(name)') <= MaxRows

SpecStore == StoreInit /\ [][StoreNext]_vars

\* ------------------------------------------------------------------ claims
\* A request of a client to one of the four endpoints of the Record Service.
Request ==
    \/ \E f \in ContactFilters : CrmListContacts(f, TRUE)
    \/ \E f \in DealFilters : CrmListDeals(f, TRUE)
    \/ \E data \in ContactBodies : CrmCreateContact(data, TRUE)
    \/ \E data \in DealBodies : CrmCreateDeal(data, TRUE)

\* The requests admitted less than RATE_WINDOW seconds ago.
Recent == {i \in DOMAIN request_timestamps : now - request_timestamps[i] < RATE_WINDOW}

\* Some recorded timestamp, hence the oldest, is at least RATE_WINDOW old.
OldestExpired ==
    \E i \in DOMAIN request_timestamps : now - request_timestamps[i] >= RATE_WINDOW

\* C1: with the outage flag off, a request to any of the four endpoints made
\* when RATE_LIMIT requests have been admitted within the last RATE_WINDOW
\* seconds is answered 429 and is not recorded; a request made when the
\* oldest recorded timestamp is at least RATE_WINDOW seconds old is admitted:
\* it is answered neither 429 nor 503 and its time is recorded.
C1_RateLimit ==
    [][(~down_mode /\ Request) =>
          /\ Cardinality(Recent) >= RATE_LIMIT =>
                /\ ret'.status = 429
                /\ Len(request_timestamps') = Cardinality(Recent)
          /\ OldestExpired =>
                /\ ret'.status \notin {429, 503}
                /\ Len(request_timestamps') = Cardinality(Recent) + 1
                /\ request_timestamps'[Len(request_timestamps')] = now]_vars

\* A sixth request was answered 429 while the five before it are still within
\* the window.
C1_Witness ==
    /\ ~down_mode
    /\ ret.tool \in {"crm_list_contacts", "crm_list_deals",
                     "crm_create_contact", "crm_create_deal"}
    /\ ret.status = 429
    /\ Cardinality(Recent) = RATE_LIMIT

\* C2: while the outage flag is on, a request to any of the four endpoints is
\* answered 503 whatever the tracked window holds, and leaves the window and
\* the data as they are; the flag is on after it is toggled on and stays on
\* until toggle_down is called again.
C2_Outage ==
    [][/\ (down_mode /\ Request) =>
             /\ ret'.status = 503
             /\ UNCHANGED <<request_timestamps, crm_contacts, crm_deals>>
       /\ toggle_down([down |-> TRUE]) => down_mode'
       /\ (down_mode /\ ~down_mode') => \E body \in Toggles : toggle_down(body)]_vars

\* A request was answered 503 while the window holds RATE_LIMIT recent
\* requests.
C2_Witness ==
    /\ down_mode
    /\ ret.tool \in {"crm_list_contacts", "crm_list_deals",
                     "crm_create_contact", "crm_create_deal"}
    /\ ret.status = 503
    /\ Cardinality(Recent) = RATE_LIMIT

\* The last tool call was a create; its request body is ret.args.
CreateTools == {"crm_create_contact", "crm_create_deal"}

\* The mirror table of the kind the last create was for.
MirrorOf(tool) == IF tool = "crm_create_contact" THEN contacts ELSE deals

\* The entity of the last create can be queried from the mirror: some row of
\* its kind's table holds the fields that were sent.
CreatedInMirror ==
    \E r \in MirrorOf(ret.tool) :
        /\ DOMAIN ret.args \subseteq DOMAIN r
        /\ \A k \in DOMAIN ret.args : r[k] = ret.args[k]

\* The ledger holds an entry for the kind of the last create.
CreatedInLedger ==
    \E e \in pending_sync :
        /\ Has(e, "table_name")
        /\ e.table_name = (IF ret.tool = "crm_create_contact" THEN "contacts" ELSE "deals")

\* C3: once Phase C is entered (the mirror exists and a sync has populated
\* it), no list tool dispatched afterwards sends a request to the Record
\* Service.
C3_ListsServedLocally == PhaseC => ~probe.list_in_C

\* C4: right after a create (contact or deal) that the Record Service answered
\* 503, the entity can be queried from the mirror and pending_sync holds an
\* entry for that write.
C4_CreateDuringOutage ==
    (ret.tool \in CreateTools /\ ret.status = 503) =>
        (CreatedInMirror /\ CreatedInLedger)

\* C5: in Phase C, right after a create whose upstream outcome was created
\* (201), rate limited (429), unavailable (503) or unreachable (no response),
\* the entity is in the mirror.
C5_DualWrite ==
    (PhaseC /\ ret.tool \in CreateTools /\ ret.status \in {201, 429, 503, 0}) =>
        CreatedInMirror

\* C6: once the mirror has been created and populated by a sync that synced
\* both kinds, the store never becomes absent again and never empties: the
\* flag and the file stay, local_db_query keeps answering, and both tables
\* keep their rows, whatever runs afterwards (a sync that fails for one or
\* both kinds, an outage, create_local_db called again).
C6_StickyMirror ==
    PhaseC =>
        /\ shadow_db_exists
        /\ shadow_file
        /\ ~Has(local_db_query([table |-> "contacts"]), "error")
        /\ contacts # {}
        /\ deals # {}

\* In Phase C, during an outage, a sync has just failed for both kinds.
C6_Witness ==
    /\ PhaseC
    /\ down_mode
    /\ sync_pc = "idle"
    /\ ret.tool = "sync_crm_to_local"
    /\ Len(ret.out.errors) = 2
    /\ probe.final = [contacts |-> 503, deals |-> 503]

\* A sync_crm_to_local call has ended (returned or raised) and no tool has
\* run since.
SyncEnded == ret.tool = "sync_crm_to_local" /\ sync_pc = "idle"

\* A sync_crm_to_local call has returned and no tool has run since.
SyncReturned == SyncEnded /\ ~Has(ret, "raised")

Kinds == {"contacts", "deals"}

\* The labels under which the errors of a kind are recorded.
Labels(kind) == IF kind = "contacts" THEN {"Contacts", "Contacts retry"}
                ELSE {"Deals", "Deals retry"}

\* C7: a sync that lists both kinds successfully, run when neither the
\* upstream data nor the mirror has been written since the last sync that
\* listed both kinds successfully, leaves the mirror rows exactly as they
\* were: no row is added, lost or altered.
C7_SyncIdempotent ==
    (SyncReturned /\ probe.repeat) => <<contacts, deals>> = probe.before

\* A repeated sync has returned over a mirror that holds the seeded and a
\* created contact.
C7_Witness ==
    /\ SyncReturned
    /\ probe.repeat
    /\ contacts \ SeedContacts # {}
    /\ deals = SeedDeals

\* C8: when a sync returns, for each kind whose list succeeded every row the
\* Record Service holds (it returned all of them) is in the mirror with the
\* same id and the same values, and the count reported for the kind is the
\* number of rows received.
C8_SyncWritesAll ==
    SyncReturned =>
        /\ probe.final.contacts = 200 =>
              /\ crm_contacts \subseteq contacts
              /\ ret.out.contacts_synced = Cardinality(crm_contacts)
        /\ probe.final.deals = 200 =>
              /\ crm_deals \subseteq deals
              /\ ret.out.deals_synced = Cardinality(crm_deals)

\* A sync has returned that listed both kinds, a created contact among them.
C8_Witness ==
    /\ SyncReturned
    /\ probe.final = [contacts |-> 200, deals |-> 200]
    /\ ret.out.contacts_synced = Cardinality(SeedContacts) + 1
    /\ ret.out.deals_synced = Cardinality(SeedDeals)

\* C9: in one sync the list of a kind is called a second time exactly when
\* the first answer was 429, and the second call is made BACKOFF seconds
\* after the first; a 503 or an unreachable server is not retried.  A sync
\* makes at most 2 list calls per kind, and its positions follow one another
\* without a way back (to the next position, or out of the call when a list
\* call raises), so it ends after at most 4 list calls.
C9_RetryOnce ==
    /\ [](\A k \in Kinds :
            /\ probe.calls[k] <= 2
            /\ SyncReturned => probe.calls[k] = (IF probe.first[k] = 429 THEN 2 ELSE 1))
    /\ [][/\ (sync_pc = "idle" /\ sync_pc' # "idle") =>
                 sync_pc' \in {"contacts_retry", "deals"}
          /\ (sync_pc = "contacts_retry" /\ sync_pc' # sync_pc) =>
                 sync_pc' \in {"deals", "idle"}
          /\ (sync_pc = "deals" /\ sync_pc' # sync_pc) =>
                 sync_pc' \in {"deals_retry", "idle"}
          /\ (sync_pc = "deals_retry" /\ sync_pc' # sync_pc) => sync_pc' = "idle"
          /\ (sync_pc' \in {"contacts_retry", "deals_retry"} /\ sync_pc' # sync_pc) =>
                 now' = now + BACKOFF]_vars

\* A sync has returned after 4 list calls: both kinds were first answered 429.
C9_Witness ==
    /\ SyncReturned
    /\ probe.first = [contacts |-> 429, deals |-> 429]
    /\ probe.calls = [contacts |-> 2, deals |-> 2]

C11_NoErrorsWhenSynced ==
    (SyncReturned /\ probe.final = [contacts |-> 200, deals |-> 200]) =>
        ret.out.errors = <<>>

\* C12: a sync never raises: whatever the answers to its list calls (200,
\* 429, 503, another error status, no connection, no answer within the
\* request timeout), it returns its metadata, and the errors list is not
\* empty when a kind was not synced.
C12_SyncNeverRaises ==
    SyncEnded =>
        /\ ~Has(ret, "raised")
        /\ Has(ret.out, "errors")
        /\ (\E k \in Kinds : probe.final[k] # 200) => ret.out.errors # <<>>

\* The contacts created upstream by create_contact.
CreatedContacts == crm_contacts \ SeedContacts

\* SELECT * FROM contacts WHERE company = ... on the mirror.
ByCompany(company) == local_db_query([table |-> "contacts", company |-> company])

\* C13: a contact created upstream from the five required fields holds them
\* with an id and a creation time; once a later sync has synced the contacts,
\* the mirror query for its company succeeds, returns rows of that company
\* only, and among them exactly one row for the created contact: it has
\* the upstream id, the supplied fields and the upstream creation time.
C13_CreateSyncQuery ==
    /\ \A c \in CreatedContacts :
          /\ Restrict(c, ContactRequired) = Jane
          /\ Has(c, "id") /\ Has(c, "created_at")
    /\ (SyncReturned /\ probe.final.contacts = 200) =>
          \A c \in CreatedContacts :
             LET q == ByCompany(c.company)
             IN  /\ ~Has(q, "error")
                 /\ \A r \in q.results : r.company = c.company
                 /\ \E r \in q.results :
                       /\ r.id = c.id
                       /\ Restrict(r, ContactRequired) = Jane
                       /\ r.created_at = c.created_at
                       /\ \A x \in q.results : x.id = c.id => x = r
                 /\ q.count = Cardinality(q.results)

\* A sync has returned that synced a contact created upstream.
C13_Witness ==
    /\ SyncReturned
    /\ probe.final.contacts = 200
    /\ CreatedContacts # {}
    /\ CreatedContacts \subseteq ByCompany("Acme Corp").results

\* C14: in Phase C the outcome and the rows of a mirror query depend on the
\* mirror content only: over any step that leaves the three mirror tables as
\* they are, whatever it does to the outage flag, the rate-limit window, the
\* clock or the upstream data, every query answers as it did before; and a
\* query on a table of the mirror never answers with an error.
C14_LocalReadsUnaffected ==
    /\ [](PhaseC => \A sql \in Queries :
                       sql.table \in TableNames => ~Has(local_db_query(sql), "error"))
    /\ [][(PhaseC /\ UNCHANGED <<contacts, deals, pending_sync>>) =>
             \A sql \in Queries : local_db_query(sql)' = local_db_query(sql)]_vars

\* In Phase C a query on the mirror has just answered without an error during
\* an outage, the window holding RATE_LIMIT recent requests.
C14_Witness ==
    /\ PhaseC
    /\ down_mode
    /\ Cardinality(Recent) = RATE_LIMIT
    /\ ret.tool = "local_db_query"
    /\ ret.args = [table |-> "contacts", company |-> "Acme Corp"]
    /\ ~Has(ret.out, "error")

\* The last tool call answered NotInitialized.
NotInitialized(r) == Has(r.out, "error") /\ r.out.error = ERR_NOT_INITIALIZED

\* C15: local_db_query and local_db_insert answer NotInitialized exactly when
\* create_local_db has not run in this process (the flag is not set) and no
\* shadow.db exists; they then leave the store as it is (no file, no table,
\* no row).
C15_NotInitialized ==
    [][/\ \A sql \in Queries :
             LocalDbQuery(sql) =>
                /\ NotInitialized(ret') <=> (~shadow_db_exists /\ ~shadow_file)
                /\ UNCHANGED shadowVars
       /\ \A i \in StoreInserts :
             LocalDbInsert(i[1], i[2]) =>
                /\ NotInitialized(ret') <=> (~shadow_db_exists /\ ~shadow_file)
                /\ NotInitialized(ret') => UNCHANGED shadowVars]_vars

\* An insert was refused with NotInitialized: no flag, no file, no rows.
C15_Witness ==
    /\ ret.tool = "local_db_insert"
    /\ ret.args = [table |-> "contacts", data |-> Jane]
    /\ NotInitialized(ret)
    /\ ~shadow_db_exists /\ ~shadow_file
    /\ contacts = {}

\* C16: on an initialized store, local_db_insert with an empty table name or
\* with empty data answers InvalidArgument and leaves the three mirror tables
\* as they are; a call that names a table and carries data is not answered
\* InvalidArgument.
C16_InvalidArgument ==
    [][\A i \in StoreInserts :
          (Initialized /\ LocalDbInsert(i[1], i[2])) =>
             /\ (i[1] = "" \/ i[2] = EmptyDict) =>
                   /\ ret'.out = [error |-> ERR_INVALID_ARGUMENT]
                   /\ UNCHANGED <<contacts, deals, pending_sync>>
             /\ (i[1] # "" /\ i[2] # EmptyDict) =>
                   ret'.out # [error |-> ERR_INVALID_ARGUMENT]]_vars

\* An insert without data was refused on a store that holds contacts.
C16_Witness ==
    /\ Initialized
    /\ contacts # {}
    /\ ret.tool = "local_db_insert"
    /\ ret.args = [table |-> "contacts", data |-> EmptyDict]
    /\ ret.out = [error |-> ERR_INVALID_ARGUMENT]

\* No two rows of the table share an id.
UniqueIds(table) == \A x, y \in table : x.id = y.id => x = y

\* From table before to table after the rows were written: each of them is
\* in the table as written, and the rows under other ids are as they were.
Written(before, after, rows) ==
    /\ rows \subseteq after
    /\ {x \in before : x.id \notin Ids(rows)} = {x \in after : x.id \notin Ids(rows)}

InsertStep(name) ==
    \E i \in Inserts : i[1] = name /\ LocalDbInsert(i[1], i[2])

\* C17: the mirror holds at most one row per kind and id; an upsert that
\* carries an id leaves under that id exactly the row it wrote, a sync that
\* listed a kind leaves under each listed id exactly the listed row, either
\* of them whatever was stored under the id before, and the rows of a kind
\* change in no other step: the row under an id is the last one written.
C17_LastWriteWins ==
    /\ [](UniqueIds(contacts) /\ UniqueIds(deals))
    /\ [][/\ \A i \in Inserts :
               (LocalDbInsert(i[1], i[2]) /\ ~Has(ret'.out, "error")) =>
                   (Written(Table(i[1]), Table(i[1])', {i[2]}))
          /\ ((SyncContacts(TRUE) \/ SyncContactsRetry(TRUE))
                   /\ probe'.final.contacts = 200) =>
                Written(contacts, contacts', crm_contacts)
          /\ ((SyncDeals(TRUE) \/ SyncDealsRetry(TRUE))
                   /\ probe'.final.deals = 200) =>
                Written(deals, deals', crm_deals)
          /\ contacts' # contacts =>
                \/ InsertStep("contacts")
                \/ SyncContacts(TRUE) \/ SyncContactsRetry(TRUE)
          /\ deals' # deals =>
                \/ InsertStep("deals")
                \/ SyncDeals(TRUE) \/ SyncDealsRetry(TRUE)]_vars

\* A sync has returned that wrote the upstream row of the created contact
\* over the row an upsert had stored under the same id.
C17_Witness ==
    /\ SyncReturned
    /\ probe.final.contacts = 200
    /\ ([id |-> 3] @@ Jane) \in probe.before[1]
    /\ \E c \in CreatedContacts : c.id = 3 /\ c \in contacts
    /\ ([id |-> 3] @@ Jane) \notin contacts

\* C18: the store invents no identifier: an id that an upsert adds to the
\* mirror's contacts or deals is the id its caller supplied (no sync runs in
\* SpecStore, so an upsert is the only writer).
C18_NoInventedIds ==
    [][\A i \in StoreInserts :
          LocalDbInsert(i[1], i[2]) =>
             \A name \in {"contacts", "deals"} :
                Ids(Table(name)') \ Ids(Table(name))
                   \subseteq {i[2][k] : k \in {"id"} \cap DOMAIN i[2]}]_vars

\* C19: the ledger is append-only: an entry of pending_sync stays as it was
\* recorded through every operation.
C19_LedgerAppendOnly ==
    [][pending_sync \subseteq pending_sync']_vars

\* The bodies that lack one required field.
ContactsLacking == {Restrict(Jane, DOMAIN Jane \ {f}) : f \in ContactRequired}
DealsLacking == {Restrict(AcmeDeal, DOMAIN AcmeDeal \ {f}) : f \in DealRequired}

C21_EmailsUnique ==
    \A c, d \in crm_contacts : c.email = d.email => c = d

\* The filters of the deal lists asked for: a minimum amount, alone or with
\* a company.
DealQueries ==
    {[min_amount |-> m] : m \in {0, 20000, 50000, 60000, 100000}} \cup
    {[min_amount |-> m, company |-> c] :
        m \in {0, 20000, 50000, 60000, 100000}, c \in {"Acme Corp", "Initech"}}

\* The stored deals the filters q ask for.
Wanted(q) ==
    {d \in crm_deals :
        /\ d.amount >= q.min_amount
        /\ Has(q, "company") => d.company = q.company}

\* C22: a deal list with a minimum amount m, when the request is let
\* through, returns exactly the stored deals with amount >= m (of the given
\* company when one is given), each once, ordered by amount descending, and
\* the tool hands the server's answer on.
C22_ListDealsMinAmount ==
    \A q \in DealQueries :
        ~Has(guard, "status") =>
            /\ list_deals(q).status = 200
            /\ list_deals(q).deals = Wanted(q)
            /\ list_deals(q).count = Cardinality(Wanted(q))
            /\ crm_list_deals(q, TRUE).data.deals = Wanted(q)
            /\ list_deals_rows(q) # {}
            /\ \A s \in list_deals_rows(q) :
                  /\ {s[i] : i \in DOMAIN s} = Wanted(q)
                  /\ Cardinality(DOMAIN s) = Cardinality(Wanted(q))
                  /\ \A i, j \in DOMAIN s : i < j => s[i].amount >= s[j].amount

\* The deals have just been listed over the seeded deals and a created one:
\* a minimum of 60000 asks for the deal of 60000 and the one of 120000 and
\* leaves out the one of 20000.
C22_Witness ==
    /\ ret.tool = "crm_list_deals"
    /\ ret.status = 200
    /\ crm_deals # SeedDeals
    /\ Cardinality(FilterDeals([min_amount |-> 60000])) = 2
    /\ Cardinality(crm_deals) = 3

\* C23: the reset empties the tracked window and leaves the outage flag and
\* the data as they were; setting the outage flag to an explicit value v
\* leaves the flag equal to v whatever it was, changes nothing at all when
\* the flag is v already (twice is once), and leaves the window as it was.
C23_ResetAndOutageIndependent ==
    /\ [][reset_rate_limit =>
             /\ request_timestamps' = <<>>
             /\ UNCHANGED <<down_mode, crm_contacts, crm_deals>>]_vars
    /\ [][\A body \in Toggles :
             (Has(body, "down") /\ toggle_down(body)) =>
                /\ down_mode' = body.down
                /\ UNCHANGED <<request_timestamps, crm_contacts, crm_deals>>
                /\ down_mode = body.down => UNCHANGED vars]_vars

\* After a request was refused with 429 the flag has been set and the window
\* reset: the flag is on over an empty window.
C23_Witness ==
    /\ ret.tool = "crm_list_contacts"
    /\ ret.status = 429
    /\ down_mode
    /\ request_timestamps = <<>>

\* C24: a create request that lacks a required field is answered 400
\* whatever the outage flag and the tracked window are, and before the write
\* latency is slept.
C24_ValidationBeforeAdmission ==
    /\ \A data \in ContactsLacking :
          /\ create_contact(data).status = 400
          /\ create_contact(data).latency = "none"
    /\ \A data \in DealsLacking :
          /\ create_deal(data).status = 400
          /\ create_deal(data).latency = "none"

\* The answers of the four endpoints to the requests made in this state;
\* each carries the table of its kind as the request leaves it.
Answers ==
    {list_contacts(f) @@ [table |-> crm_contacts] : f \in ContactFilters} \cup
    {list_deals(f) @@ [table |-> crm_deals] : f \in DealFilters} \cup
    {create_contact(data) : data \in ServerContactBodies} \cup
    {create_deal(data) : data \in DealBodies}

Refused(status) == status \in {429, 503}

\* C25: the verdict of the admission check is the answer of a refused
\* request: 503 exactly when the flag is on, 429 exactly when it is off and
\* the window is full.  A refused request carries no entity, sleeps no
\* latency and leaves the tracked window, the flag and the data as they
\* were; no refused request is tracked.
C25_RefusedLeavesNoTrace ==
    /\ [](\A r \in Answers :
             /\ Has(guard, "status") <=> Refused(r.status)
             /\ Refused(r.status) =>
                   /\ r.status = guard.status
                   /\ r.ts = request_timestamps
                   /\ r.latency = "none"
                   /\ r.table \in {crm_contacts, crm_deals}
                   /\ DOMAIN r \cap {"contacts", "deals", "contact", "deal"} = {})
    /\ [][(ret' # ret /\ Has(ret', "status") /\ Refused(ret'.status)) =>
             UNCHANGED <<now, serverVars>>]_vars

\* A create request has just been refused with 429 over a full window.
C25_Witness ==
    /\ ret.tool = "crm_create_deal"
    /\ ret.status = 429
    /\ Len(request_timestamps) = RATE_LIMIT
    /\ crm_deals = SeedDeals

\* C26: with requests served side by side the tracked window never holds
\* more than RATE_LIMIT timestamps, and no RATE_LIMIT + 1 requests are
\* admitted within less than RATE_WINDOW seconds.
C26_ConcurrentRateLimit ==
    /\ Len(request_timestamps) <= RATE_LIMIT
    /\ Len(admitted.times) = RATE_LIMIT + 1 =>
          admitted.times[RATE_LIMIT + 1] - admitted.times[1] >= RATE_WINDOW

\* C27: no request is admitted while the outage flag is on, that is after
\* the toggle that set it has completed.
C27_AdmissionAtomic == ~admitted.during_outage

\* The mirror that the finished call c leaves when it runs alone on the
\* mirror m, writing what it wrote: a sync the lists it got, an insert its
\* row.
Alone(c, m) ==
    IF c.call = "sync"
    THEN << IF Has(c.lists, "contacts")
            THEN sync_upsert(m[1], c.lists.contacts, ContactColumns) ELSE m[1],
            IF Has(c.lists, "deals")
            THEN sync_upsert(m[2], c.lists.deals, DealColumns) ELSE m[2],
            m[3] >>
    ELSE << IF c.args.table = "contacts" THEN Upsert(m[1], c.args.data) ELSE m[1],
            IF c.args.table = "deals" THEN Upsert(m[2], c.args.data) ELSE m[2],
            m[3] >>

WritersDone == writers # NoWriters /\ \A p \in Procs : writers.procs[p].pc = "done"

\* C28: when two calls that write the mirror side by side (two syncs, or a
\* sync and an insert) have both ended, the mirror is the one that the two
\* calls leave when one runs after the other, in one of the two orders.
C28_WritersSerialized ==
    WritersDone =>
        <<contacts, deals, pending_sync>> \in
            { Alone(writers.procs["p2"], Alone(writers.procs["p1"], writers.before)),
              Alone(writers.procs["p1"], Alone(writers.procs["p2"], writers.before)) }

\* A sync that wrote both kinds and an insert of a contact without an id
\* have ended side by side, on a mirror that held an earlier sync, and the
\* mirror is that of the insert after the sync, which is not that of the
\* sync after the insert.
C28_Witness ==
    /\ WritersDone
    /\ writers.procs["p2"].args = [table |-> "contacts", data |-> Jane]
    /\ DOMAIN writers.procs["p1"].lists = {"contacts", "deals"}
    /\ writers.procs["p1"].lists.contacts # SeedContacts
    /\ <<contacts, deals, pending_sync>> =
          Alone(writers.procs["p2"], Alone(writers.procs["p1"], writers.before))
    /\ <<contacts, deals, pending_sync>> #
          Alone(writers.procs["p1"], Alone(writers.procs["p2"], writers.before))

\* C29: the last-sync time is that of the last sync that listed both kinds:
\* the step in which a sync returns with a kind that failed in the end
\* leaves it as it was.
C29_LastSyncOnlyOnSuccess ==
    [][(SyncReturned' /\ (probe'.final.contacts # 200 \/ probe'.final.deals # 200))
          => UNCHANGED last_sync_time]_vars

\* C30: create_local_db leaves every row of contacts, deals and pending_sync
\* as it was, on a store that is empty or populated; it leaves the store in
\* existence, and on a store this process has already created it changes
\* nothing at all: any number of calls leave what one call leaves.
C30_CreateIdempotent ==
    [][CreateLocalDb =>
          /\ UNCHANGED <<contacts, deals, pending_sync>>
          /\ shadow_db_exists' /\ shadow_file'
          /\ ret'.out = [message |-> "Local shadow database created"]
          /\ (shadow_db_exists /\ shadow_file) => UNCHANGED shadowVars]_vars

\* create_local_db has just returned on a store that holds an earlier sync,
\* an inserted contact and a ledger entry.
C30_Witness ==
    /\ ret.tool = "create_local_db"
    /\ SeedContacts \subseteq contacts
    /\ contacts # SeedContacts
    /\ deals # {}
    /\ pending_sync # {}

\* C31: an insert that names an id which already has a row replaces the
\* whole row: afterwards the row under that id holds the named columns with
\* the given values, and every other column is NULL (outside the row's
\* DOMAIN), whatever it held before.
C31_UpsertReplacesRow ==
    [][\A i \in StoreInserts :
          (/\ LocalDbInsert(i[1], i[2])
           /\ ~Has(ret'.out, "error")
           /\ Has(i[2], "id")
           /\ i[2].id \in Ids(Table(i[1]))) =>
              \A x \in Table(i[1])' :
                 x.id = i[2].id => (DOMAIN x = DOMAIN i[2] /\ x = i[2])]_vars

\* A contact has just been inserted under id 1 over the synced contact of
\* id 1, which had a phone and a creation time: the row has neither now.
C31_Witness ==
    /\ ret.tool = "local_db_insert"
    /\ ret.args = [table |-> "contacts", data |-> [id |-> 1] @@ Jane]
    /\ ret.out = [message |-> "Inserted"]
    /\ SeedContacts \cap contacts # {}
    /\ \E x \in contacts :
          x.id = 1 /\ x.first_name = "Jane" /\ DOMAIN x \cap {"phone", "created_at"} = {}

\* A step of sync_crm_to_local.
SyncStep ==
    \E reachable \in BOOLEAN :
        \/ SyncContacts(reachable) \/ SyncContactsRetry(reachable)
        \/ SyncDeals(reachable) \/ SyncDealsRetry(reachable)

\* The ids of the kind that the Record Service returns in this step: those
\* of the stored rows when this step lists the kind and is answered 200.
Returned(kind) ==
    IF kind = "contacts"
    THEN IF sync_pc \in {"idle", "contacts_retry"} /\ probe'.final.contacts = 200
         THEN Ids(crm_contacts) ELSE {}
    ELSE IF sync_pc \in {"deals", "deals_retry"} /\ probe'.final.deals = 200
         THEN Ids(crm_deals) ELSE {}

\* C32: no step of a sync removes an id from the mirror's contacts or deals,
\* changes a row whose id the Record Service did not return in that step,
\* or touches pending_sync.
C32_SyncLeavesOtherRows ==
    [][SyncStep =>
          /\ pending_sync' = pending_sync
          /\ \A kind \in Kinds :
                /\ Ids(Table(kind)) \subseteq Ids(Table(kind)')
                /\ \A x \in Table(kind) :
                      x.id \notin Returned(kind) => x \in Table(kind)']_vars

\* A sync that listed both kinds has returned over a mirror that held a
\* contact and a deal written locally under id 3 and a ledger entry: they
\* are there as they were, beside the synced rows.
C32_Witness ==
    /\ SyncReturned
    /\ probe.final = [contacts |-> 200, deals |-> 200]
    /\ ([id |-> 3] @@ Jane) \in probe.before[1] \cap contacts
    /\ ([id |-> 3] @@ AcmeDeal) \in probe.before[2] \cap deals
    /\ pending_sync # {}
    /\ SeedContacts \subseteq contacts
    /\ SeedDeals \subseteq deals

====
